---- MODULE Spec2Model ----
(***************************************************************************)
(* A model of the generic AVL tree of avl.go: the node heap with its       *)
(* child and parent pointers and cached heights, the tree's root and size, *)
(* the public mutators Add / Remove / Clear with their upward rebalance    *)
(* walk, the read-only queries, and the stack-based in-order iterator.     *)
(*                                                                         *)
(* Pointers are node identifiers; NIL is the nil pointer.  Go addresses    *)
(* are opaque (the code only compares them for equality), so between two   *)
(* public calls the heap is kept up to renaming: Normalise renumbers the   *)
(* nodes reachable from the root by in-order position and forgets the      *)
(* unreachable ones, as the garbage collector does.  Inside one call node  *)
(* identities are those of the code.                                       *)
(*                                                                         *)
(* Spec is the tree under its mutators and queries; IterSpec is the tree   *)
(* under its mutators and two iterators.  The client does not mutate the   *)
(* tree while it holds an iterator (what Next does then is left open by    *)
(* the code's documentation), so iterators only ever see live nodes.       *)
(* hist, yielded and bag are history variables: the last call and its      *)
(* result, what each iterator has returned, and the values added and not   *)
(* yet removed.                                                            *)
(***************************************************************************)
EXTENDS Integers, Sequences, FiniteSets, TLC

\* ------------------------------------------------------------------ bounds
MaxNodes == 6
MaxVal == 5
Values == 1..MaxVal

NIL == 0
\* a pointer to a node that is no longer reachable from the root
DETACHED == -1

VARIABLES tree, iters, yielded, hist, bag, script
vars == <<tree, iters, yielded, hist, bag, script>>

Max(a, b) == IF a >= b THEN a ELSE b
Abs(a) == IF a >= 0 THEN a ELSE -a

\* ------------------------------------------------------------- Node methods
NewTreeNode(value) ==
    [value |-> value, left |-> NIL, right |-> NIL, parent |-> NIL, height |-> 0]

\* assignments to one field of one node
setLeft(ns, n, p) == [ns EXCEPT ![n].left = p]
setRight(ns, n, p) == [ns EXCEPT ![n].right = p]
setParent(ns, n, p) == [ns EXCEPT ![n].parent = p]

\* the locals leftHeight / rightHeight: a child's cached height, -1 for none
childHeight(ns, child) == IF child # NIL THEN ns[child].height ELSE -1

balanceFactor(ns, node) ==
    childHeight(ns, ns[node].right) - childHeight(ns, ns[node].left)

\* updateHeight that looks at the left child only
updateHeightLeftOnly(ns, node) ==
    IF node = NIL THEN ns
    ELSE [ns EXCEPT ![node].height = childHeight(ns, ns[node].left) + 1]

updateHeight(ns, node) ==
    IF node = NIL THEN ns
    ELSE [ns EXCEPT ![node].height =
             Max(childHeight(ns, ns[node].left), childHeight(ns, ns[node].right)) + 1]

\* "if node.right != nil { node.right.parent = node }"
adoptRight(ns, node) ==
    IF ns[node].right # NIL THEN setParent(ns, ns[node].right, node) ELSE ns

\* "if node.left != nil { node.left.parent = node }"
adoptLeft(ns, node) ==
    IF ns[node].left # NIL THEN setParent(ns, ns[node].left, node) ELSE ns

\* rotateLeft without "node.parent = child"
rotateLeftKeepsParent(ns, node, child) ==
    LET n1 == setRight(ns, node, ns[child].left)
        n2 == adoptRight(n1, node)
        n3 == setLeft(n2, child, node)
        n5 == updateHeight(n3, node)
    IN updateHeight(n5, child)

\* rotateLeft without "node.updateHeight()": only the child's height is redone
rotateLeftStaleNode(ns, node, child) ==
    LET n1 == setRight(ns, node, ns[child].left)
        n2 == adoptRight(n1, node)
        n3 == setLeft(n2, child, node)
        n4 == setParent(n3, node, child)
    IN updateHeight(n4, child)

\* the body of rotateLeft once child := node.right is read
rotateLeftWith(ns, node, child) ==
    LET n1 == setRight(ns, node, ns[child].left)
        n2 == adoptRight(n1, node)
        n3 == setLeft(n2, child, node)
        n4 == setParent(n3, node, child)
        n5 == updateHeight(n4, node)
    IN updateHeight(n5, child)

\* rotateLeft that returns the node it was called on instead of child
rotateLeftReturnsNode(ns, node) ==
    [nodes |-> rotateLeftWith(ns, node, ns[node].right), ret |-> node]

\* both rotations return the heap after the rotation and the new subtree root
rotateLeft(ns, node) ==
    [nodes |-> rotateLeftWith(ns, node, ns[node].right), ret |-> ns[node].right]

\* the body of rotateRight once child := node.left is read
rotateRightWith(ns, node, child) ==
    LET n1 == setLeft(ns, node, ns[child].right)
        n2 == adoptLeft(n1, node)
        n3 == setRight(n2, child, node)
        n4 == setParent(n3, node, child)
        n5 == updateHeight(n4, node)
    IN updateHeight(n5, child)

rotateRight(ns, node) ==
    [nodes |-> rotateRightWith(ns, node, ns[node].left), ret |-> ns[node].left]

\* ------------------------------------------------------ Tree private methods
NewAvlTree == [root |-> NIL, size |-> 0, nodes |-> <<>>]

\* replaceRoot that does nothing when there is no new root
replaceRootUnlessNil(t, newRoot) ==
    IF newRoot # NIL
    THEN [t EXCEPT !.root = newRoot, !.nodes = setParent(t.nodes, newRoot, NIL)]
    ELSE t

replaceRoot(t, newRoot) ==
    IF newRoot # NIL
    THEN [t EXCEPT !.root = newRoot, !.nodes = setParent(t.nodes, newRoot, NIL)]
    ELSE [t EXCEPT !.root = newRoot]

replaceChild(t, parent, child, replacement) ==
    IF parent = NIL THEN replaceRoot(t, replacement)
    ELSE IF t.nodes[parent].left = child
         THEN [t EXCEPT !.nodes = setLeft(t.nodes, parent, replacement)]
         ELSE [t EXCEPT !.nodes = setRight(t.nodes, parent, replacement)]

\* the descent loop of insertNode: the last node visited
RECURSIVE insertDescend(_, _, _, _)
insertDescend(ns, value, parent, next) ==
    IF next = NIL THEN parent
    ELSE IF value < ns[next].value
         THEN insertDescend(ns, value, next, ns[next].left)
         ELSE insertDescend(ns, value, next, ns[next].right)

\* a fresh address: one no node of the heap has
NewAddress(ns) == CHOOSE n \in 1..(Cardinality(DOMAIN ns) + 1) : n \notin DOMAIN ns

\* the heap with the node NewTreeNode(value) at the address newNode
allocate(ns, newNode, value) ==
    [n \in DOMAIN ns \cup {newNode} |->
        IF n = newNode THEN NewTreeNode(value) ELSE ns[n]]

\* "if value < parent.value { parent.left = newNode } else { parent.right = newNode }"
\* with the comparison the wrong way round
attachSwapped(ns, parent, newNode, value) ==
    IF value < ns[parent].value THEN setRight(ns, parent, newNode)
    ELSE setLeft(ns, parent, newNode)

\* the attachment with "<=": a value equal to the parent's goes to the left
attachLeftOnEqual(ns, parent, newNode, value) ==
    IF value <= ns[parent].value THEN setLeft(ns, parent, newNode)
    ELSE setRight(ns, parent, newNode)

\* "if value < parent.value { parent.left = newNode } else { parent.right = newNode }"
attach(ns, parent, newNode, value) ==
    IF value < ns[parent].value THEN setLeft(ns, parent, newNode)
    ELSE setRight(ns, parent, newNode)

\* insertNode once newNode is allocated (t holds it, not yet linked)
insertAllocated(t, value, newNode, parent) ==
    IF t.root = NIL
    THEN [t |-> [t EXCEPT !.root = newNode], newNode |-> newNode, parent |-> NIL]
    ELSE [t |-> [t EXCEPT !.nodes = attach(t.nodes, parent, newNode, value)],
          newNode |-> newNode, parent |-> parent]

\* insertNode: the tree, the inserted node and its parent
insertNode(t, value) ==
    insertAllocated([t EXCEPT !.nodes = allocate(t.nodes, NewAddress(t.nodes), value)],
                    value, NewAddress(t.nodes),
                    insertDescend(t.nodes, value, NIL, t.root))

\* the search loop descending to the wrong side
RECURSIVE searchFromFlipped(_, _, _)
searchFromFlipped(ns, value, node) ==
    IF node = NIL THEN NIL
    ELSE IF ns[node].value = value THEN node
    ELSE IF value < ns[node].value THEN searchFromFlipped(ns, value, ns[node].right)
    ELSE searchFromFlipped(ns, value, ns[node].left)

RECURSIVE searchFrom(_, _, _)
searchFrom(ns, value, node) ==
    IF node = NIL THEN NIL
    ELSE IF ns[node].value = value THEN node
    ELSE IF value < ns[node].value THEN searchFrom(ns, value, ns[node].left)
    ELSE searchFrom(ns, value, ns[node].right)

getNodeByValue(t, value) ==
    IF t.root = NIL THEN NIL ELSE searchFrom(t.nodes, value, t.root)

\* "node.left = node.left.rotateLeft(); node.left.parent = node", r the rotation
claimLeft(ns, node) == setParent(ns, ns[node].left, node)

\* the double rotation without "node.left =": the rotated child is not linked in
reattachLeftNoAssign(r, node) == claimLeft(r.nodes, node)

reattachLeft(r, node) == claimLeft(setLeft(r.nodes, node, r.ret), node)

\* "node.right = node.right.rotateRight(); node.right.parent = node"
claimRight(ns, node) == setParent(ns, ns[node].right, node)
reattachRight(r, node) == claimRight(setRight(r.nodes, node, r.ret), node)

\* a rotation result together with the rotations that led to it, in order
did(r, done) == [nodes |-> r.nodes, ret |-> r.ret, done |-> done]

\* rebalance's rotations with the double rotation also chosen for an even child
rotationsEager(ns, node, nodeBalance) ==
    IF nodeBalance < -1
    THEN IF balanceFactor(ns, ns[node].left) >= 0
         THEN did(rotateRight(reattachLeft(rotateLeft(ns, ns[node].left), node), node),
                  <<"node.left.rotateLeft", "node.rotateRight">>)
         ELSE did(rotateRight(ns, node), <<"node.rotateRight">>)
    ELSE IF balanceFactor(ns, ns[node].right) <= 0
         THEN did(rotateLeft(reattachRight(rotateRight(ns, ns[node].right), node), node),
                  <<"node.right.rotateRight", "node.rotateLeft">>)
         ELSE did(rotateLeft(ns, node), <<"node.rotateLeft">>)

\* the one or two rotations of rebalance at a node with |nodeBalance| > 1
rotations(ns, node, nodeBalance) ==
    IF nodeBalance < -1
    THEN IF balanceFactor(ns, ns[node].left) > 0
         THEN did(rotateRight(reattachLeft(rotateLeft(ns, ns[node].left), node), node),
                  <<"node.left.rotateLeft", "node.rotateRight">>)
         ELSE did(rotateRight(ns, node), <<"node.rotateRight">>)
    ELSE IF balanceFactor(ns, ns[node].right) < 0
         THEN did(rotateLeft(reattachRight(rotateRight(ns, ns[node].right), node), node),
                  <<"node.right.rotateRight", "node.rotateLeft">>)
         ELSE did(rotateLeft(ns, node), <<"node.rotateLeft">>)

\* "newSubtreeRoot.parent = nodeParent; tree.replaceChild(nodeParent, node, newSubtreeRoot)"
spliceSubtree(t, rot, nodeParent, node) ==
    replaceChild([t EXCEPT !.nodes = setParent(rot.nodes, rot.ret, nodeParent)],
                 nodeParent, node, rot.ret)

\* rebalance that tolerates a balance factor of -2 or 2
rebalanceLoose(t, node) ==
    IF Abs(balanceFactor(t.nodes, node)) <= 2
    THEN [t EXCEPT !.nodes = updateHeight(t.nodes, node)]
    ELSE spliceSubtree(t, rotations(t.nodes, node, balanceFactor(t.nodes, node)),
                       t.nodes[node].parent, node)

rebalance(t, node) ==
    IF Abs(balanceFactor(t.nodes, node)) <= 1
    THEN [t EXCEPT !.nodes = updateHeight(t.nodes, node)]
    ELSE spliceSubtree(t, rotations(t.nodes, node, balanceFactor(t.nodes, node)),
                       t.nodes[node].parent, node)

\* the rotations one call rebalance(node) performs on t, in order
rebalanceDone(t, node) ==
    IF Abs(balanceFactor(t.nodes, node)) <= 1 THEN <<>>
    ELSE rotations(t.nodes, node, balanceFactor(t.nodes, node)).done

\* the loop "for n != nil { tree.rebalance(n); n = n.parent }" of Add and
\* Remove; visited lists, in order, the nodes handed to rebalance, each with
\* the tree as it was when rebalance was called
RECURSIVE rebalanceWalk(_, _, _)
walkOn(t, node, visited) ==
    rebalanceWalk(t, t.nodes[node].parent, visited)

rebalanceWalk(t, node, visited) ==
    IF node = NIL THEN [t |-> t, visited |-> visited]
    ELSE walkOn(rebalance(t, node), node, Append(visited, [node |-> node, t |-> t]))

\* ------------------------------------------------------- Tree public methods
\* the end of Add without "tree.size += 1"
addNoCount(w, newNode) ==
    [t |-> w.t, newNode |-> newNode, visited |-> w.visited]

\* "tree.size += 1", w the result of the walk
addCount(w, newNode) ==
    [t |-> [w.t EXCEPT !.size = w.t.size + 1],
     newNode |-> newNode, visited |-> w.visited]

\* Add after insertNode: "newNode.parent = parent", the walk and the count
addInserted(ins) ==
    addCount(rebalanceWalk([ins.t EXCEPT !.nodes =
                               setParent(ins.t.nodes, ins.newNode, ins.parent)],
                           ins.parent, <<>>),
             ins.newNode)

\* Add: the tree after the call, the new node and the nodes the walk visited
Add(t, value) == addInserted(insertNode(t, value))

\* "for successor.left != nil { successor = successor.left }"
RECURSIVE leftmost(_, _)
leftmost(ns, node) ==
    IF ns[node].left # NIL THEN leftmost(ns, ns[node].left) ELSE node

\* "if successor.right != nil { successor.right.parent = successor.parent }"
adoptSuccessorRight(ns, successor) ==
    IF ns[successor].right # NIL
    THEN setParent(ns, ns[successor].right, ns[successor].parent) ELSE ns

\* "successor.parent.left = successor.right"
liftSuccessorRight(ns, successor) ==
    setLeft(ns, ns[successor].parent, ns[successor].right)

\* the deeper-successor block without "successor.right = node.right"
takeRightSkipped(ns, node, successor) == ns

\* "successor.right = node.right"
takeRight(ns, node, successor) == setRight(ns, successor, ns[node].right)

\* the block under "if successor != node.right"
spliceDeep(ns, node, successor) ==
    IF successor # ns[node].right
    THEN takeRight(adoptSuccessorRight(liftSuccessorRight(ns, successor), successor),
                   node, successor)
    ELSE ns

\* Case 1 of Remove without "node.left.parent = successor"
leftToSuccessorSkipped(ns, node, successor) == ns

\* "node.left.parent = successor"
leftToSuccessor(ns, node, successor) == setParent(ns, ns[node].left, successor)

\* "node.right.parent = successor"
rightToSuccessor(ns, node, successor) == setParent(ns, ns[node].right, successor)

\* Case 1 of Remove, from "successor.left = node.left" on: the heap
spliceSuccessor(ns, node, successor) ==
    rightToSuccessor(
        leftToSuccessor(
            spliceDeep(setLeft(ns, successor, ns[node].left), node, successor),
            node, successor),
        node, successor)

\* Case 1 of Remove starting the walk at the successor itself in all cases
twoChildrenFromSuccessor(ns, successor) ==
    [nodes |-> ns, replacement |-> successor, actionNode |-> successor]

\* Case 1 of Remove: the heap, the replacement and the action node
twoChildren(ns, successor) ==
    [nodes |-> ns, replacement |-> successor, actionNode |-> ns[successor].parent]

\* Case 2 of Remove: the heap, the replacement and the action node
oneOrNoChild(ns, node) ==
    [nodes |-> ns,
     replacement |-> IF ns[node].left = NIL THEN ns[node].right
                     ELSE IF ns[node].right = NIL THEN ns[node].left
                     ELSE NIL,
     actionNode |-> ns[node].parent]

\* the two cases of Remove
unlink(ns, node) ==
    IF ns[node].left # NIL /\ ns[node].right # NIL
    THEN twoChildren(spliceSuccessor(ns, node, leftmost(ns, ns[node].right)),
                     leftmost(ns, ns[node].right))
    ELSE oneOrNoChild(ns, node)

\* which branch of Remove a node takes: "miss" (not found), "twoDirect" (two
\* children, the successor is node.right), "twoDeep" (two children, the
\* successor lies deeper), "oneOrNone"
removeCase(ns, node) ==
    IF node = NIL THEN "miss"
    ELSE IF ns[node].left # NIL /\ ns[node].right # NIL
    THEN IF leftmost(ns, ns[node].right) # ns[node].right THEN "twoDeep" ELSE "twoDirect"
    ELSE "oneOrNone"

\* "replacement.parent = parent" on the tree
setParentIn(t, n, p) == [t EXCEPT !.nodes = setParent(t.nodes, n, p)]

\* "tree.replaceChild(parent, node, replacement);
\*  if replacement != nil { replacement.parent = parent }"
replaceNode(t, parent, node, replacement) ==
    IF replacement # NIL
    THEN setParentIn(replaceChild(t, parent, node, replacement), replacement, parent)
    ELSE replaceChild(t, parent, node, replacement)

\* the end of Remove without "tree.size -= 1"
removeNoCount(w, node, actionNode) ==
    [t |-> w.t, ret |-> TRUE,
     node |-> node, actionNode |-> actionNode, visited |-> w.visited]

\* "tree.size -= 1; return true", w the result of the walk
removeCount(w, node, actionNode) ==
    [t |-> [w.t EXCEPT !.size = w.t.size - 1], ret |-> TRUE,
     node |-> node, actionNode |-> actionNode, visited |-> w.visited]

\* Remove after the two cases: replace node, walk from the action node, count
removeUnlinked(t, node, parent, u) ==
    removeCount(rebalanceWalk(replaceNode([t EXCEPT !.nodes = u.nodes],
                                          parent, node, u.replacement),
                              u.actionNode, <<>>),
                node, u.actionNode)

\* Remove once the node is found: the tree after the call, the returned bool,
\* the node that was detached, the node where the walk started and the nodes
\* the walk visited
removeFound(t, node) ==
    removeUnlinked(t, node, t.nodes[node].parent, unlink(t.nodes, node))

\* Remove reporting success also when the value was not found
RemoveAlwaysTrue(t, value) ==
    IF getNodeByValue(t, value) = NIL
    THEN [t |-> t, ret |-> TRUE, node |-> NIL, actionNode |-> NIL, visited |-> <<>>]
    ELSE removeFound(t, getNodeByValue(t, value))

\* Remove with "tree.size -= 1" done before the lookup is tested
RemoveCountsMiss(t, value) ==
    IF getNodeByValue(t, value) = NIL
    THEN [t |-> [t EXCEPT !.size = t.size - 1], ret |-> FALSE, node |-> NIL,
          actionNode |-> NIL, visited |-> <<>>]
    ELSE removeFound(t, getNodeByValue(t, value))

\* Remove: the lookup and the early return for a value that is not found
Remove(t, value) ==
    IF getNodeByValue(t, value) = NIL
    THEN [t |-> t, ret |-> FALSE, node |-> NIL, actionNode |-> NIL, visited |-> <<>>]
    ELSE removeFound(t, getNodeByValue(t, value))

Contains(t, value) == getNodeByValue(t, value) # NIL

\* Clear that forgets the size
ClearRootOnly(t) == [t EXCEPT !.root = NIL]

\* Clear that resets the size and keeps the root
ClearSizeOnly(t) == [t EXCEPT !.size = 0]

Clear(t) == [t EXCEPT !.root = NIL, !.size = 0]

IsEmpty(t) == t.root = NIL

RECURSIVE descendLeft(_, _)
descendLeft(ns, curr) ==
    IF curr # NIL /\ ns[curr].left # NIL THEN descendLeft(ns, ns[curr].left) ELSE curr

RECURSIVE descendRight(_, _)
descendRight(ns, curr) ==
    IF curr # NIL /\ ns[curr].right # NIL THEN descendRight(ns, ns[curr].right) ELSE curr

\* GetMin descending to the right, as GetMax does
GetMinRightward(t) ==
    LET curr == descendRight(t.nodes, t.root)
    IN IF curr = NIL THEN [value |-> 0, err |-> TRUE]
       ELSE [value |-> t.nodes[curr].value, err |-> FALSE]

\* GetMin / GetMax: err is TRUE for the "tree is empty" error, value is then
\* the zero value of T
GetMin(t) ==
    LET curr == descendLeft(t.nodes, t.root)
    IN IF curr = NIL THEN [value |-> 0, err |-> TRUE]
       ELSE [value |-> t.nodes[curr].value, err |-> FALSE]

GetMax(t) ==
    LET curr == descendRight(t.nodes, t.root)
    IN IF curr = NIL THEN [value |-> 0, err |-> TRUE]
       ELSE [value |-> t.nodes[curr].value, err |-> FALSE]

GetSize(t) == t.size

\* a traversal that appends the node's value before visiting its left subtree
RECURSIVE PreorderTraverse(_, _, _)
PreorderTraverse(ns, node, queue) ==
    IF node = NIL THEN queue
    ELSE LET q1 == Append(queue, ns[node].value)
             q2 == PreorderTraverse(ns, ns[node].left, q1)
         IN PreorderTraverse(ns, ns[node].right, q2)

\* InorderTraverse(node, queue): queue with the subtree's values appended
RECURSIVE InorderTraverse(_, _, _)
InorderTraverse(ns, node, queue) ==
    IF node = NIL THEN queue
    ELSE LET q1 == InorderTraverse(ns, ns[node].left, queue)
             q2 == Append(q1, ns[node].value)
         IN InorderTraverse(ns, ns[node].right, q2)


\* --------------------------------------------------------------- Iterator
NewIterator == [stack |-> <<>>, index |-> 0]

\* "for curr != nil { iter.stack = append(iter.stack, curr); curr = curr.left }"
RECURSIVE pushLeftSpine(_, _, _)
pushLeftSpine(ns, stack, curr) ==
    IF curr = NIL THEN stack
    ELSE pushLeftSpine(ns, Append(stack, curr), ns[curr].left)

\* Next pushing the popped node's right child without that child's left spine
IterNextNoSpine(iter, t) ==
    IF iter.index = 0 /\ t.root = NIL
    THEN [iter |-> iter, value |-> 0, index |-> -1]
    ELSE
    LET it1 == IF iter.index = 0
               THEN [iter EXCEPT !.stack = pushLeftSpine(t.nodes, iter.stack, t.root)]
               ELSE iter
    IN IF it1.index >= t.size
       THEN [iter |-> it1, value |-> 0, index |-> -1]
       ELSE LET nextNode == it1.stack[Len(it1.stack)]
                popped == SubSeq(it1.stack, 1, Len(it1.stack) - 1)
                pushed == IF t.nodes[nextNode].right # NIL
                          THEN Append(popped, t.nodes[nextNode].right) ELSE popped
            IN [iter |-> [stack |-> pushed, index |-> it1.index + 1],
                value |-> t.nodes[nextNode].value, index |-> it1.index]

\* Next that rewinds the iterator when it reports the end
IterNextRewinds(iter, t) ==
    IF iter.index = 0 /\ t.root = NIL
    THEN [iter |-> iter, value |-> 0, index |-> -1]
    ELSE
    LET it1 == IF iter.index = 0
               THEN [iter EXCEPT !.stack = pushLeftSpine(t.nodes, iter.stack, t.root)]
               ELSE iter
    IN IF it1.index >= t.size
       THEN [iter |-> NewIterator, value |-> 0, index |-> -1]
       ELSE LET nextNode == it1.stack[Len(it1.stack)]
                popped == SubSeq(it1.stack, 1, Len(it1.stack) - 1)
                pushed == pushLeftSpine(t.nodes, popped, t.nodes[nextNode].right)
            IN [iter |-> [stack |-> pushed, index |-> it1.index + 1],
                value |-> t.nodes[nextNode].value, index |-> it1.index]

\* AvlTreeIterator.Next: the iterator after the call, the value and the index
IterNext(iter, t) ==
    IF iter.index = 0 /\ t.root = NIL
    THEN [iter |-> iter, value |-> 0, index |-> -1]
    ELSE
    LET it1 == IF iter.index = 0
               THEN [iter EXCEPT !.stack = pushLeftSpine(t.nodes, iter.stack, t.root)]
               ELSE iter
    IN IF it1.index >= t.size
       THEN [iter |-> it1, value |-> 0, index |-> -1]
       ELSE LET nextNode == it1.stack[Len(it1.stack)]
                popped == SubSeq(it1.stack, 1, Len(it1.stack) - 1)
                pushed == pushLeftSpine(t.nodes, popped, t.nodes[nextNode].right)
            IN [iter |-> [stack |-> pushed, index |-> it1.index + 1],
                value |-> t.nodes[nextNode].value, index |-> it1.index]

\* ------------------------------------------------------- heap up to renaming
\* the nodes reachable from node through left and right, in in-order
RECURSIVE InorderNodes(_, _)
InorderNodes(ns, node) ==
    IF node = NIL THEN <<>>
    ELSE InorderNodes(ns, ns[node].left) \o <<node>> \o InorderNodes(ns, ns[node].right)

Normalise(t) ==
    LET order == InorderNodes(t.nodes, t.root)
        live == {order[i] : i \in 1..Len(order)}
        rn(p) == IF p = NIL THEN NIL
                 ELSE IF p \in live THEN CHOOSE i \in 1..Len(order) : order[i] = p
                 ELSE DETACHED
    IN [root |-> rn(t.root), size |-> t.size,
        nodes |-> [i \in 1..Len(order) |->
                     LET n == t.nodes[order[i]]
                     IN [value |-> n.value, left |-> rn(n.left), right |-> rn(n.right),
                         parent |-> rn(n.parent), height |-> n.height]]]

\* ------------------------------------------------------------ the state machine
\* the two iterators a client holds on the tree
IterIds == {"a", "b"}
NoIter == [stack |-> <<>>, index |-> -1]
\* calls of Next observed after an iterator has reported its end
MaxExhausted == 2

\* the call sequences the specification works through on an empty tree; the
\* code only compares values, so 1..5 stand for 10, 20, 30, 40, 50
Scenarios == {<<1, 2, 3>>, <<3, 1, 2>>, <<1, 2, 3, 4, 5>>}
OffScript == <<0>>

\* script: the values added since the tree was last empty, as long as they
\* are the beginning of one of the Scenarios and nothing was removed
IsPrefix(s, sc) == Len(s) <= Len(sc) /\ s = SubSeq(sc, 1, Len(s))
follow(s, v) ==
    IF \E sc \in Scenarios : IsPrefix(Append(s, v), sc) THEN Append(s, v)
    ELSE OffScript
afterRemove(s, r) ==
    IF ~r.ret THEN s
    ELSE IF r.t.size = 0 THEN <<>> ELSE OffScript

\* what a rebalance walk did: for every call of rebalance, in order, whether
\* it was called on the root and the rotations it performed
Walked(visited) ==
    [k \in 1..Len(visited) |->
        [root |-> visited[k].t.root = visited[k].node,
         done |-> rebalanceDone(visited[k].t, visited[k].node)]]

\* hist: the last public call, its argument and result, what the tree looked
\* like to the caller just before it (pre), for a Remove(v) that comes
\* immediately after an Add(v) what it looked like before that Add (prev),
\* and for Add and Remove the walk they made and the branch Remove took
NoPrev == [op |-> "none", size |-> 0, had |-> FALSE]

\* a result: b the returned bool (or "an error was returned"), n the returned
\* number or value, s the returned slice
RetNone == [b |-> FALSE, n |-> 0, s |-> <<>>]
RetBool(b) == [b |-> b, n |-> 0, s |-> <<>>]
RetInt(n) == [b |-> FALSE, n |-> n, s |-> <<>>]
RetValErr(r) == [b |-> r.err, n |-> r.value, s |-> <<>>]
RetSlice(s) == [b |-> FALSE, n |-> 0, s |-> s]

Call(op, arg, ret, t) ==
    [op |-> op, arg |-> arg, ret |-> ret,
     pre |-> [size |-> GetSize(t),
              had |-> IF arg \in Values THEN Contains(t, arg) ELSE FALSE,
              script |-> script],
     walk |-> <<>>, case |-> "none",
     prev |-> IF op = "Remove" /\ hist.op = "Add" /\ hist.arg = arg
              THEN [op |-> "Add", size |-> hist.pre.size, had |-> hist.pre.had]
              ELSE NoPrev]

NoIterators == \A i \in IterIds : iters[i] = NoIter

Init ==
    /\ tree = NewAvlTree
    /\ iters = [i \in IterIds |-> NoIter]
    /\ yielded = [i \in IterIds |-> <<>>]
    /\ hist = [op |-> "NewAvlTree", arg |-> NIL, ret |-> RetNone,
               pre |-> [size |-> 0, had |-> FALSE, script |-> <<>>],
               walk |-> <<>>, case |-> "none", prev |-> NoPrev]
    /\ bag = [v \in Values |-> 0]
    /\ script = <<>>


\* mutators; the client does not mutate the tree while it holds an iterator
CallAdd(v) ==
    /\ NoIterators
    /\ tree.size < MaxNodes
    /\ tree' = Normalise(Add(tree, v).t)
    /\ hist' = [Call("Add", v, RetNone, tree)
                   EXCEPT !.walk = Walked(Add(tree, v).visited)]
    /\ bag' = [bag EXCEPT ![v] = @ + 1]
    /\ script' = follow(script, v)
    /\ UNCHANGED <<iters, yielded>>

\* the return of Remove(v), r its result
RemoveReturns(v, r) ==
    /\ tree' = Normalise(r.t)
    /\ hist' = [Call("Remove", v, RetBool(r.ret), tree)
                   EXCEPT !.walk = Walked(r.visited),
                          !.case = removeCase(tree.nodes, r.node)]
    /\ bag' = IF r.ret THEN [bag EXCEPT ![v] = @ - 1] ELSE bag
    /\ script' = afterRemove(script, r)

CallRemove(v) ==
    /\ NoIterators
    /\ RemoveReturns(v, Remove(tree, v))
    /\ UNCHANGED <<iters, yielded>>

CallClear ==
    /\ NoIterators
    /\ tree' = Normalise(Clear(tree))
    /\ hist' = Call("Clear", NIL, RetNone, tree)
    /\ bag' = [v \in Values |-> 0]
    /\ script' = <<>>
    /\ UNCHANGED <<iters, yielded>>

\* queries
CallContains(v) ==
    /\ hist' = Call("Contains", v, RetBool(Contains(tree, v)), tree)
    /\ UNCHANGED <<tree, iters, yielded, bag, script>>

CallIsEmpty ==
    /\ hist' = Call("IsEmpty", NIL, RetBool(IsEmpty(tree)), tree)
    /\ UNCHANGED <<tree, iters, yielded, bag, script>>

\* GetMin walking down with tree.root itself as the cursor
CallGetMinMovesRoot ==
    /\ hist' = Call("GetMin", NIL, RetValErr(GetMin(tree)), tree)
    /\ tree' = [tree EXCEPT !.root = descendLeft(tree.nodes, tree.root)]
    /\ UNCHANGED <<iters, yielded, bag, script>>

CallGetMin ==
    /\ hist' = Call("GetMin", NIL, RetValErr(GetMin(tree)), tree)
    /\ UNCHANGED <<tree, iters, yielded, bag, script>>

CallGetMax ==
    /\ hist' = Call("GetMax", NIL, RetValErr(GetMax(tree)), tree)
    /\ UNCHANGED <<tree, iters, yielded, bag, script>>

CallGetSize ==
    /\ hist' = Call("GetSize", NIL, RetInt(GetSize(tree)), tree)
    /\ UNCHANGED <<tree, iters, yielded, bag, script>>

CallInorderTraverse ==
    /\ hist' = Call("InorderTraverse", NIL,
                    RetSlice(InorderTraverse(tree.nodes, tree.root, <<>>)), tree)
    /\ UNCHANGED <<tree, iters, yielded, bag, script>>

\* iterators
CallNewIterator(i) ==
    /\ iters' = [iters EXCEPT ![i] = NewIterator]
    /\ yielded' = [yielded EXCEPT ![i] = <<>>]
    /\ hist' = Call("Iterate", NIL, RetNone, tree)
    /\ UNCHANGED <<tree, bag, script>>

\* the return of Next on iterator i, r its result
NextReturns(i, r) ==
    /\ iters' = [iters EXCEPT ![i] = r.iter]
    /\ yielded' = [yielded EXCEPT ![i] = Append(@, <<r.value, r.index>>)]

CallNext(i) ==
    /\ iters[i] # NoIter
    /\ Len(yielded[i]) < tree.size + MaxExhausted
    /\ NextReturns(i, IterNext(iters[i], tree))
    /\ hist' = Call("Iterate", NIL, RetNone, tree)
    /\ UNCHANGED <<tree, bag, script>>

\* the client lets go of an iterator
Release(i) ==
    /\ iters[i] # NoIter
    /\ iters' = [iters EXCEPT ![i] = NoIter]
    /\ yielded' = [yielded EXCEPT ![i] = <<>>]
    /\ hist' = Call("Iterate", NIL, RetNone, tree)
    /\ UNCHANGED <<tree, bag, script>>

Next ==
    \/ \E v \in Values : CallAdd(v)
    \/ \E v \in Values : CallRemove(v)
    \/ CallClear
    \/ \E v \in Values : CallContains(v)
    \/ CallIsEmpty
    \/ CallGetMin
    \/ CallGetMax
    \/ CallGetSize
    \/ CallInorderTraverse

Spec == Init /\ [][Next]_vars

IterStep ==
    \/ \E v \in Values : CallAdd(v)
    \/ \E v \in Values : CallRemove(v)
    \/ CallClear
    \/ \E i \in IterIds : CallNewIterator(i)
    \/ \E i \in IterIds : CallNext(i)
    \/ \E i \in IterIds : Release(i)

IterSpec == Init /\ [][IterStep]_vars

\* a client that mutates, queries and walks the tree with one iterator
ReadStep ==
    \/ \E v \in Values : CallAdd(v)
    \/ \E v \in Values : CallRemove(v)
    \/ CallClear
    \/ \E v \in Values : CallContains(v)
    \/ CallIsEmpty
    \/ CallGetMin
    \/ CallGetMax
    \/ CallGetSize
    \/ CallInorderTraverse
    \/ CallNewIterator("a")
    \/ CallNext("a")
    \/ Release("a")

ReadSpec == Init /\ [][ReadStep]_vars


\* ================================================================ properties
\* the nodes reachable from the root, and what is stored in them
Reachable == {InorderNodes(tree.nodes, tree.root)[i] :
                 i \in 1..Len(InorderNodes(tree.nodes, tree.root))}

\* the true height of a subtree, recomputed from its shape
RECURSIVE TrueHeight(_, _)
TrueHeight(ns, node) ==
    IF node = NIL THEN -1
    ELSE Max(TrueHeight(ns, ns[node].left), TrueHeight(ns, ns[node].right)) + 1

\* the values stored in a subtree
RECURSIVE SubtreeValues(_, _)
SubtreeValues(ns, node) ==
    IF node = NIL THEN {}
    ELSE SubtreeValues(ns, ns[node].left) \cup {ns[node].value}
             \cup SubtreeValues(ns, ns[node].right)

\* how many reachable nodes of t hold v
Count(t, v) ==
    LET order == InorderNodes(t.nodes, t.root)
    IN Cardinality({i \in 1..Len(order) : t.nodes[order[i]].value = v})

\* the reference bag written out in ascending order
RECURSIVE BagSeq(_, _)
BagSeq(b, v) ==
    IF v > MaxVal THEN <<>>
    ELSE [i \in 1..b[v] |-> v] \o BagSeq(b, v + 1)

Inorder == InorderTraverse(tree.nodes, tree.root, <<>>)

\* C1: after every Add or Remove (in every state between public calls) each
\* reachable node has true subtree heights that differ by at most one
C1_AvlBalance ==
    \A n \in Reachable :
        Abs(TrueHeight(tree.nodes, tree.nodes[n].right)
            - TrueHeight(tree.nodes, tree.nodes[n].left)) <= 1

\* a Remove took a node out of a tree of height two that holds equal values
C1_Witness ==
    /\ hist.op = "Remove" /\ hist.ret.b = TRUE
    /\ tree.size >= 4
    /\ \E v \in Values : Count(tree, v) >= 2

\* C2: the in-order traversal from the root is the reference bag (one more v
\* per Add(v), one less per successful Remove(v), none after Clear), ascending
C2_InorderIsBag == Inorder = BagSeq(bag, 1)

\* a successful Remove left a tree that still holds a value twice
C2_Witness ==
    /\ hist.op = "Remove" /\ hist.ret.b = TRUE
    /\ \E v \in Values : bag[v] >= 2
    /\ \E v \in Values : bag[v] = 1

\* C3 as stated: left subtree strictly smaller, right subtree greater or equal
C3_StrictBst ==
    \A n \in Reachable :
        /\ \A u \in SubtreeValues(tree.nodes, tree.nodes[n].left) : u < tree.nodes[n].value
        /\ \A u \in SubtreeValues(tree.nodes, tree.nodes[n].right) : u >= tree.nodes[n].value

\* C3 amended: left subtree smaller or equal (a rotation can move an equal
\* value to the left), right subtree greater or equal
C3_WeakBst ==
    \A n \in Reachable :
        /\ \A u \in SubtreeValues(tree.nodes, tree.nodes[n].left) : u <= tree.nodes[n].value
        /\ \A u \in SubtreeValues(tree.nodes, tree.nodes[n].right) : u >= tree.nodes[n].value

\* a node whose left subtree and right subtree both hold the node's own value
C3_Witness ==
    \E n \in Reachable :
        /\ tree.nodes[n].value \in SubtreeValues(tree.nodes, tree.nodes[n].left)
        /\ tree.nodes[n].value \in SubtreeValues(tree.nodes, tree.nodes[n].right)

\* C4: GetSize is the number of reachable nodes in every state; Add adds one,
\* a Remove that returns true takes one, a Remove that returns false and
\* Clear leave respectively the same size and zero
C4_SizeStep ==
    /\ GetSize(tree') = Len(InorderTraverse(tree'.nodes, tree'.root, <<>>))
    /\ hist'.op = "Add" => GetSize(tree') = GetSize(tree) + 1
    /\ (hist'.op = "Remove" /\ hist'.ret.b = TRUE) => GetSize(tree') = GetSize(tree) - 1
    /\ (hist'.op = "Remove" /\ hist'.ret.b = FALSE) => GetSize(tree') = GetSize(tree)
    /\ hist'.op = "Clear" => GetSize(tree') = 0

C4_Size ==
    /\ [](GetSize(tree) = Len(Inorder))
    /\ [][C4_SizeStep]_vars

\* Clear has emptied a tree that held several nodes
C4_Witness ==
    /\ hist.op = "Clear" /\ hist.pre.size >= 3 /\ GetSize(tree) = 0

\* C5 as stated: after Add(v) then Remove(v), Contains(v) is false and the
\* size is what it was before the Add, whether or not v was stored before
C5_RoundTrip ==
    (hist.op = "Remove" /\ hist.prev.op = "Add") =>
        /\ Contains(tree, hist.arg) = FALSE
        /\ GetSize(tree) = hist.prev.size

\* C5 amended: after Add(v) then Remove(v) the size is what it was before the
\* Add and Contains(v) is what it was before the Add (false only when v was
\* not stored before)
C5_RoundTripAmended ==
    (hist.op = "Remove" /\ hist.prev.op = "Add") =>
        /\ Contains(tree, hist.arg) = hist.prev.had
        /\ GetSize(tree) = hist.prev.size

\* Add(v) then Remove(v) on a tree that already held v
C5_Witness ==
    /\ hist.op = "Remove" /\ hist.prev.op = "Add"
    /\ hist.prev.had = TRUE
    /\ hist.prev.size >= 2

\* C6: Remove(v) returns true exactly when Contains(v) held before the call;
\* when it returns true one node holding v is gone and every other value
\* keeps its count
C6_RemoveStep ==
    hist'.op = "Remove" =>
        /\ hist'.ret.b = Contains(tree, hist'.arg)
        /\ hist'.ret.b = TRUE =>
              \A u \in Values :
                 Count(tree', u) = Count(tree, u) - (IF u = hist'.arg THEN 1 ELSE 0)

C6_Remove == [][C6_RemoveStep]_vars

\* a Remove took one of two equal values out and left the other
C6_Witness ==
    /\ hist.op = "Remove" /\ hist.ret.b = TRUE
    /\ Count(tree, hist.arg) = 1
    /\ tree.size >= 3

\* C7: Remove of a value that is not stored returns false and changes nothing:
\* root, shape, parent links, cached heights and size
C7_RemoveAbsentStep ==
    (hist'.op = "Remove" /\ ~Contains(tree, hist'.arg)) =>
        /\ hist'.ret.b = FALSE
        /\ tree' = tree
        /\ Remove(tree, hist'.arg).t = tree

C7_RemoveAbsent == [][C7_RemoveAbsentStep]_vars

\* Remove has reported a miss on a tree of several nodes
C7_Witness ==
    /\ hist.op = "Remove" /\ hist.ret.b = FALSE
    /\ tree.size >= 3

\* C8: Contains(v) is true exactly when a reachable node holds v; it is true
\* right after Add(v)
C8_Contains ==
    /\ \A v \in Values : Contains(tree, v) <=> (Count(tree, v) >= 1)
    /\ hist.op = "Add" => Contains(tree, hist.arg)
    /\ hist.op = "Contains" => (hist.ret.b <=> (Count(tree, hist.arg) >= 1))

\* Contains found a value two levels below the root, in a tree that holds an
\* equal value to the left of its root
C8_Witness ==
    /\ hist.op = "Contains" /\ hist.ret.b = TRUE
    /\ tree.nodes[tree.root].value # hist.arg
    /\ tree.nodes[tree.root].left # NIL
    /\ tree.nodes[tree.nodes[tree.root].left].value = tree.nodes[tree.root].value

\* C9: GetMin and GetMax fail exactly on the tree without elements; otherwise
\* they return the smallest and the largest stored value
C9_MinMax ==
    LET stored == SubtreeValues(tree.nodes, tree.root)
        lo == GetMin(tree)
        hi == GetMax(tree)
    IN /\ lo.err <=> (Cardinality(Reachable) = 0)
       /\ hi.err <=> (Cardinality(Reachable) = 0)
       /\ ~lo.err => (lo.value \in stored /\ \A u \in stored : lo.value <= u)
       /\ ~hi.err => (hi.value \in stored /\ \A u \in stored : hi.value >= u)
       /\ hist.op = "GetMin" => hist.ret = RetValErr(lo)
       /\ hist.op = "GetMax" => hist.ret = RetValErr(hi)

\* GetMin returned a value that is not at the root
C9_Witness ==
    /\ hist.op = "GetMin" /\ hist.ret.b = FALSE
    /\ hist.ret.n < tree.nodes[tree.root].value
    /\ GetMax(tree).value > tree.nodes[tree.root].value

\* C10: the calls of Next made so far on an iterator returned the in-order
\* sequence with indices 0, 1, ..., and index -1 (with the zero value) from
\* the call after the last element on, whatever the other iterator has done
C10_IteratorAgrees ==
    \A i \in IterIds :
        \A k \in 1..Len(yielded[i]) :
            yielded[i][k] = IF k <= Len(Inorder) THEN <<Inorder[k], k - 1>>
                            ELSE <<0, -1>>

\* one iterator has run to its end while a newer one has made its first step
C10_Witness ==
    /\ tree.size >= 3
    /\ Len(yielded["a"]) = tree.size + 1
    /\ Len(yielded["b"]) = 1
    /\ yielded["b"][1][2] = 0

\* what a client can observe of a tree after one more call: the returned
\* value and the tree the call leaves behind
ObservedAdd(t, v) == Normalise(Add(t, v).t)
ObservedRemove(t, v) == <<Remove(t, v).ret, Normalise(Remove(t, v).t)>>

\* the tree Clear() leaves behind answers like a newly constructed one
ClearedIsNew(c) ==
    /\ IsEmpty(c) = TRUE
    /\ GetSize(c) = 0
    /\ Clear(c) = c
    /\ \A v \in Values :
          /\ ObservedAdd(c, v) = ObservedAdd(NewAvlTree, v)
          /\ ObservedRemove(c, v) = ObservedRemove(NewAvlTree, v)
          /\ Contains(c, v) = Contains(NewAvlTree, v)

\* C11: from any reachable state Clear() leaves IsEmpty() true and GetSize()
\* zero, a second Clear() changes nothing, and Add, Remove and Contains after
\* it behave as on a newly constructed tree
C11_Clear ==
    /\ ClearedIsNew(Clear(tree))
    /\ hist.op = "Clear" => (tree = NewAvlTree /\ ClearedIsNew(tree))

\* Clear has just been called on a tree of four or more nodes
C11_Witness ==
    /\ hist.op = "Clear" /\ hist.pre.size >= 4
    /\ IsEmpty(tree) = TRUE

\* C12: in every state between public calls IsEmpty() is (GetSize() = 0);
\* once every added value has been removed again, IsEmpty() is true and
\* GetSize() is zero
C12_EmptyIffSizeZero ==
    /\ IsEmpty(tree) = (GetSize(tree) = 0)
    /\ (\A v \in Values : bag[v] = 0) => (IsEmpty(tree) = TRUE /\ GetSize(tree) = 0)

\* a Remove has just taken out the only node the tree held
C12_Witness ==
    /\ hist.op = "Remove" /\ hist.ret.b = TRUE /\ hist.pre.size = 1
    /\ \A v \in Values : bag[v] = 0
    /\ IsEmpty(tree) = TRUE

\* the rotations of a recorded walk, in order, each with whether rebalance
\* had been called on the root of the tree
RECURSIVE RotationsFrom(_, _)
RotationsFrom(walk, k) ==
    IF k > Len(walk) THEN <<>>
    ELSE [i \in 1..Len(walk[k].done) |-> <<walk[k].root, walk[k].done[i]>>]
             \o RotationsFrom(walk, k + 1)

RotationsIn(walk) == RotationsFrom(walk, 1)

\* the tree is 2 at the root with the leaves 1 to its left and 3 to its right
RootTwoOfThree ==
    /\ tree.root # NIL /\ tree.nodes[tree.root].value = 2
    /\ tree.nodes[tree.root].left # NIL
    /\ tree.nodes[tree.nodes[tree.root].left].value = 1
    /\ tree.nodes[tree.root].right # NIL
    /\ tree.nodes[tree.nodes[tree.root].right].value = 3
    /\ tree.size = 3
    /\ Inorder = <<1, 2, 3>>

\* C13: adding 1, 2, 3 to an empty tree performs exactly one rotation, a left
\* rotation at the root (none while 1 and 2 are added), and ends with 2 at
\* the root, 1 to its left, 3 to its right and the in-order sequence 1, 2, 3
C13_RightRight ==
    /\ (hist.op = "Add" /\ script \in {<<1>>, <<1, 2>>}) => RotationsIn(hist.walk) = <<>>
    /\ (hist.op = "Add" /\ script = <<1, 2, 3>>) =>
           RotationsIn(hist.walk) = << <<TRUE, "node.rotateLeft">> >>
    /\ script = <<1, 2, 3>> => RootTwoOfThree

\* 3 has just been added after 1 and 2
C13_Witness ==
    /\ hist.op = "Add" /\ hist.arg = 3 /\ script = <<1, 2, 3>>
    /\ Len(RotationsIn(hist.walk)) = 1

\* C14: adding 3, 1, 2 to an empty tree performs one double rotation, a left
\* rotation of the root's left child and then a right rotation of the root
\* (none while 3 and 1 are added), and ends with 2 at the root, 1 to its
\* left, 3 to its right and the in-order sequence 1, 2, 3
C14_LeftRight ==
    /\ (hist.op = "Add" /\ script \in {<<3>>, <<3, 1>>}) => RotationsIn(hist.walk) = <<>>
    /\ (hist.op = "Add" /\ script = <<3, 1, 2>>) =>
           RotationsIn(hist.walk) = << <<TRUE, "node.left.rotateLeft">>,
                                       <<TRUE, "node.rotateRight">> >>
    /\ script = <<3, 1, 2>> => RootTwoOfThree

\* 2 has just been added after 3 and 1
C14_Witness ==
    /\ hist.op = "Add" /\ hist.arg = 2 /\ script = <<3, 1, 2>>
    /\ Len(RotationsIn(hist.walk)) = 2

\* C15: after 10, 20, 30, 40, 50 are added to an empty tree (1..5 stand for
\* them, in the same order), Remove(30) returns true, Contains(30) is false,
\* GetSize() is 4, the in-order sequence is 10, 20, 40, 50 and every node has
\* a balance factor of -1, 0 or 1
C15_RemoveThirty ==
    (hist.op = "Remove" /\ hist.arg = 3 /\ hist.pre.script = <<1, 2, 3, 4, 5>>) =>
        /\ hist.ret.b = TRUE
        /\ Contains(tree, 3) = FALSE
        /\ GetSize(tree) = 4
        /\ Inorder = <<1, 2, 4, 5>>
        /\ \A n \in Reachable :
              /\ Abs(balanceFactor(tree.nodes, n)) <= 1
              /\ Abs(TrueHeight(tree.nodes, tree.nodes[n].right)
                     - TrueHeight(tree.nodes, tree.nodes[n].left)) <= 1

\* Remove(30) has just returned on the tree built from 10, 20, 30, 40, 50
C15_Witness ==
    /\ hist.op = "Remove" /\ hist.arg = 3 /\ hist.pre.script = <<1, 2, 3, 4, 5>>
    /\ hist.pre.size = 5 /\ hist.pre.had = TRUE

\* C16: after every Add, Remove and Clear the links of every node reachable
\* from the root are symmetric: the root has no parent, and a left or right
\* child that is present has the node as its parent; so it is after a Remove
\* of a node with two children, whether the successor was its right child or
\* lay deeper
C16_SymmetricLinks ==
    /\ tree.root # NIL => tree.nodes[tree.root].parent = NIL
    /\ \A n \in Reachable :
          /\ tree.nodes[n].left # NIL => tree.nodes[tree.nodes[n].left].parent = n
          /\ tree.nodes[n].right # NIL => tree.nodes[tree.nodes[n].right].parent = n

\* a Remove has just taken out a node with two children whose successor lay
\* deeper than its right child, and the node that replaced it has both children
C16_Witness ==
    /\ hist.op = "Remove" /\ hist.case = "twoDeep"
    /\ \E n \in Reachable : tree.nodes[n].left # NIL /\ tree.nodes[n].right # NIL

\* C17: after every Add and Remove the cached height of every reachable node
\* is max(height(left), height(right)) + 1, an absent child counting as -1,
\* and it is the true height of the node's subtree: no height is stale, the
\* relocated successor's included
C17_CachedHeights ==
    \A n \in Reachable :
        /\ tree.nodes[n].height =
              Max(childHeight(tree.nodes, tree.nodes[n].left),
                  childHeight(tree.nodes, tree.nodes[n].right)) + 1
        /\ tree.nodes[n].height = TrueHeight(tree.nodes, n)

\* a Remove has just put the right child of the removed node in its place,
\* and the walk from there rotated
C17_Witness ==
    /\ hist.op = "Remove" /\ hist.case = "twoDirect"
    /\ RotationsIn(hist.walk) # <<>>

\* the in-order successor a two-children Remove of node picks in tree t
SuccessorOf(t, node) == leftmost(t.nodes, t.nodes[node].right)

\* the tree of a Remove result r when its walk starts: node already replaced
Spliced(r) == r.visited[1].t

\* a node and the nodes above it
RECURSIVE AncestorsOrSelf(_, _)
AncestorsOrSelf(ns, n) ==
    IF n = NIL THEN {} ELSE {n} \cup AncestorsOrSelf(ns, ns[n].parent)

\* the shape of a subtree: its nodes, each with its two children
SubtreeShape(ns, node) ==
    {<<InorderNodes(ns, node)[i],
       ns[InorderNodes(ns, node)[i]].left,
       ns[InorderNodes(ns, node)[i]].right>> : i \in 1..Len(InorderNodes(ns, node))}

\* n's subtree is not the same before Remove result r and when r's walk starts
ChangedBySplice(t, r, n) ==
    SubtreeShape(t.nodes, n) # SubtreeShape(Spliced(r).nodes, n)

\* C18 as stated: the walk of a two-children Remove starts at the successor's
\* new parent, or (reading "where the successor ends up" as the start) at the
\* successor itself
StartsWhereSuccessorLands(t, r) ==
    r.actionNode \in {SuccessorOf(t, r.node),
                      Spliced(r).nodes[SuccessorOf(t, r.node)].parent}

C18_StartAsStatedStep ==
    hist'.case \in {"twoDirect", "twoDeep"} =>
        \E r \in {Remove(tree, hist'.arg)} : StartsWhereSuccessorLands(tree, r)

C18_StartAsStated == [][C18_StartAsStatedStep]_vars

\* the walk of Remove result r starts at the lowest node the splice changed
StartsAtLowestChange(t, r) ==
    /\ r.actionNode = IF SuccessorOf(t, r.node) = t.nodes[r.node].right
                      THEN SuccessorOf(t, r.node)
                      ELSE t.nodes[SuccessorOf(t, r.node)].parent
    /\ r.visited[1].node = r.actionNode
    /\ ChangedBySplice(t, r, r.actionNode)
    /\ \A n \in DOMAIN t.nodes :
          (n # r.node /\ ChangedBySplice(t, r, n)) =>
              n \in AncestorsOrSelf(Spliced(r).nodes, r.actionNode)

\* C18 amended: the walk of a two-children Remove starts at the successor
\* itself when the successor was the removed node's right child and at the
\* successor's former parent when it lay deeper; that node is the lowest one
\* whose subtree the splice changed
C18_StartStep ==
    hist'.case \in {"twoDirect", "twoDeep"} =>
        \E r \in {Remove(tree, hist'.arg)} : StartsAtLowestChange(tree, r)

C18_Start == [][C18_StartStep]_vars

\* a Remove with a deeper successor has just removed the root: its walk went
\* over the successor's former parent and the successor
C18_Witness ==
    /\ hist.op = "Remove" /\ hist.case = "twoDeep" /\ hist.ret.b = TRUE
    /\ Len(hist.walk) = 2 /\ hist.walk[2].root = TRUE

\* the result of the Add or Remove that a step has just made
Made(op, arg) == IF op = "Add" THEN Add(tree, arg).visited ELSE Remove(tree, arg).visited
MadeTree(op, arg) == IF op = "Add" THEN Add(tree, arg).t ELSE Remove(tree, arg).t

\* the walk ends at the root of the tree it leaves, which has no parent
EndsAtRoot(visited, t) ==
    Len(visited) > 0 =>
        /\ visited[Len(visited)].node = t.root
        /\ t.nodes[t.root].parent = NIL

\* no node is handed to rebalance twice
VisitsOnce(visited) ==
    \A i, j \in 1..Len(visited) : visited[i].node = visited[j].node => i = j

\* C19 as stated: the walk of every Add and Remove visits each node at most
\* once and its last visited node is the root
C19_WalkAsStatedStep ==
    hist'.op \in {"Add", "Remove"} =>
        \E visited \in {Made(hist'.op, hist'.arg)} :
            \E t \in {MadeTree(hist'.op, hist'.arg)} :
                VisitsOnce(visited) /\ EndsAtRoot(visited, t)

C19_WalkAsStated == [][C19_WalkAsStatedStep]_vars

\* no node is handed to rebalance three times
VisitsTwiceAtMost(visited) ==
    \A i, j, k \in 1..Len(visited) :
        (visited[i].node = visited[j].node /\ visited[j].node = visited[k].node) =>
            (i = j \/ j = k \/ i = k)

\* a node is handed to rebalance again only right after a rotation
RevisitsAfterRotation(visited) ==
    \A i, j \in 1..Len(visited) :
        (i < j /\ visited[i].node = visited[j].node) =>
            rebalanceDone(visited[j - 1].t, visited[j - 1].node) # <<>>

\* what C19 amended says of a walk: visited the walk, t the tree it leaves,
\* height the height of the tree before the call
WalkEnds(visited, t, height, op) ==
    /\ Len(visited) <= height + 2
    /\ EndsAtRoot(visited, t)
    /\ VisitsTwiceAtMost(visited)
    /\ RevisitsAfterRotation(visited)
    /\ op = "Remove" => VisitsOnce(visited)

\* C19 amended: every Add and Remove terminates: the walk calls rebalance at
\* most (height of the tree before the call) + 2 times and its last visited
\* node is the root, which has no parent; the walk of a Remove visits each
\* node at most once, the walk of an Add visits a node at most twice, the
\* second time only when the rotation just made has put it above the node
\* visited before
C19_WalkStep ==
    hist'.op \in {"Add", "Remove"} =>
        \E visited \in {Made(hist'.op, hist'.arg)} :
            \E t \in {MadeTree(hist'.op, hist'.arg)} :
                WalkEnds(visited, t, TrueHeight(tree.nodes, tree.root), hist'.op)

C19_Walk == [][C19_WalkStep]_vars

\* an Add has just rotated below the root and walked on up to the root
C19_Witness ==
    /\ hist.op = "Add" /\ Len(hist.walk) >= 3
    /\ hist.walk[Len(hist.walk)].root = TRUE
    /\ \E k \in 1..(Len(hist.walk) - 1) : hist.walk[k].done # <<>> /\ hist.walk[k].root = FALSE

\* the nodes of a subtree
SubtreeNodes(ns, node) ==
    {InorderNodes(ns, node)[i] : i \in 1..Len(InorderNodes(ns, node))}

\* every node of the subtree under top is balanced and has the right height
SubtreeSound(ns, top) ==
    \A m \in SubtreeNodes(ns, top) :
        /\ Abs(balanceFactor(ns, m)) <= 1
        /\ ns[m].height = TrueHeight(ns, m)

\* the child of node on the side its balance factor bf leans to
HeavyChild(ns, node, bf) == IF bf < 0 THEN ns[node].left ELSE ns[node].right

\* the rotations rebalance is to choose at a node with balance factor bf of
\* -2 or 2 whose heavy child has balance factor cbf
RotationsFor(bf, cbf) ==
    IF bf < 0
    THEN IF cbf > 0 THEN <<"node.left.rotateLeft", "node.rotateRight">>
         ELSE <<"node.rotateRight">>
    ELSE IF cbf < 0 THEN <<"node.right.rotateRight", "node.rotateLeft">>
         ELSE <<"node.rotateLeft">>

\* one call rebalance(node) on tree t, bf the balance factor of node in t and
\* after the tree the call leaves
RebalanceSound(t, node, bf, after) ==
    /\ bf \in -2..2
    /\ bf # 0 => HeavyChild(t.nodes, node, bf) # NIL
    /\ Abs(bf) = 2 =>
          /\ rebalanceDone(t, node) =
                 RotationsFor(bf, balanceFactor(t.nodes, HeavyChild(t.nodes, node, bf)))
          /\ after.nodes[node].parent # NIL
          /\ after.nodes[after.nodes[node].parent].parent = t.nodes[node].parent
          /\ SubtreeSound(after.nodes, after.nodes[node].parent)

\* every call of rebalance in a walk
WalkSound(visited) ==
    \A k \in 1..Len(visited) :
        \E after \in {rebalance(visited[k].t, visited[k].node)} :
            RebalanceSound(visited[k].t, visited[k].node,
                           balanceFactor(visited[k].t.nodes, visited[k].node), after)

\* C20: whenever rebalance(node) is called in the walk of an Add or Remove,
\* node's balance factor is within -2..2 and the child on the heavy side is
\* present; at -2 or 2 the call makes a single rotation when the heavy child
\* leans the same way or is even and a double rotation when it leans the
\* other way, and every node of the subtree that takes node's place then has
\* a balance factor within -1..1 and a correct cached height
C20_RebalanceStep ==
    hist'.op \in {"Add", "Remove"} =>
        \E visited \in {Made(hist'.op, hist'.arg)} : WalkSound(visited)

C20_Rebalance == [][C20_RebalanceStep]_vars

\* a Remove has just made a double rotation
C20_Witness ==
    /\ hist.op = "Remove" /\ hist.ret.b = TRUE
    /\ \E k \in 1..Len(hist.walk) : Len(hist.walk[k].done) = 2

\* the child slot of parent that holds child in heap ns, "root" for no parent
SlotOf(ns, parent, child) ==
    IF parent = NIL THEN "root"
    ELSE IF ns[parent].left = child THEN "left" ELSE "right"

\* the node in that slot of tree t
InSlot(t, parent, slot) ==
    IF slot = "root" THEN t.root
    ELSE IF slot = "left" THEN t.nodes[parent].left ELSE t.nodes[parent].right

\* Remove result r on tree t detached the first node holding v on the search
\* path: it holds v and nothing above it does; all other nodes stay reachable
\* with their own values
DetachesFirstFound(t, r, v) ==
    /\ t.nodes[r.node].value = v
    /\ \A a \in AncestorsOrSelf(t.nodes, r.node) : a # r.node => t.nodes[a].value # v
    /\ SubtreeNodes(r.t.nodes, r.t.root) = SubtreeNodes(t.nodes, t.root) \ {r.node}
    /\ \A n \in SubtreeNodes(r.t.nodes, r.t.root) : r.t.nodes[n].value = t.nodes[n].value

\* when the walk of a two-children Remove starts, the successor succ is in
\* the slot of the detached node and has taken over its children; sp the
\* tree at that moment
SuccessorInSlot(t, sp, node, succ) ==
    /\ sp.nodes[succ].parent = t.nodes[node].parent
    /\ InSlot(sp, t.nodes[node].parent, SlotOf(t.nodes, t.nodes[node].parent, node)) = succ
    /\ sp.nodes[succ].left = t.nodes[node].left
    /\ sp.nodes[t.nodes[node].left].parent = succ
    /\ IF succ = t.nodes[node].right
       THEN sp.nodes[succ].right = t.nodes[succ].right
       ELSE /\ sp.nodes[succ].right = t.nodes[node].right
            /\ sp.nodes[t.nodes[node].right].parent = succ
            /\ sp.nodes[t.nodes[succ].parent].left = t.nodes[succ].right
            /\ t.nodes[succ].right # NIL =>
                   sp.nodes[t.nodes[succ].right].parent = t.nodes[succ].parent

RemoveFrame(t, r, v) ==
    /\ DetachesFirstFound(t, r, v)
    /\ (t.nodes[r.node].left # NIL /\ t.nodes[r.node].right # NIL) =>
           SuccessorInSlot(t, Spliced(r), r.node, SuccessorOf(t, r.node))

\* C21: a Remove(v) that finds v detaches exactly the first node holding v on
\* the search path from the root; every other node stays reachable and keeps
\* its value; a detached node with two children is replaced by its in-order
\* successor node, which gets the same parent (or becomes the root), the
\* detached node's left subtree and, unless it was the direct right child,
\* its right subtree, the successor's former right child taking the
\* successor's former slot
C21_RemoveFrameStep ==
    (hist'.op = "Remove" /\ hist'.ret.b = TRUE) =>
        \E r \in {Remove(tree, hist'.arg)} : RemoveFrame(tree, r, hist'.arg)

C21_RemoveFrame == [][C21_RemoveFrameStep]_vars

\* a Remove has just detached a node with two children and a deeper
\* successor, and another node holding the same value is still in the tree
C21_Witness ==
    /\ hist.op = "Remove" /\ hist.ret.b = TRUE /\ hist.case = "twoDeep"
    /\ Contains(tree, hist.arg) = TRUE

\* in the in-order sequence order of heap ns the node newNode, holding v,
\* comes after every other node holding v and before every node holding more
AfterItsEquals(ns, order, newNode, v) ==
    /\ \E i \in 1..Len(order) : order[i] = newNode
    /\ ns[newNode].value = v
    /\ \A i, j \in 1..Len(order) :
          (order[i] = newNode /\ j # i) =>
              /\ ns[order[j]].value = v => j < i
              /\ ns[order[j]].value > v => j > i

\* C22: when Add(v) is called on a tree that already holds v, whatever shape
\* rotations and removals have given it, the new node comes, in the in-order
\* sequence of nodes, after every node that already held v and before every
\* node that holds a greater value
C22_AddAfterEqualsStep ==
    (hist'.op = "Add" /\ hist'.pre.had = TRUE) =>
        \E r \in {Add(tree, hist'.arg)} :
            \E order \in {InorderNodes(r.t.nodes, r.t.root)} :
                AfterItsEquals(r.t.nodes, order, r.newNode, hist'.arg)

C22_AddAfterEquals == [][C22_AddAfterEqualsStep]_vars

\* an Add of a value the tree already held twice has just rotated, in a tree
\* that also holds a greater value
C22_Witness ==
    /\ hist.op = "Add" /\ hist.pre.had = TRUE
    /\ bag[hist.arg] >= 3
    /\ RotationsIn(hist.walk) # <<>>
    /\ \E v \in Values : v > hist.arg /\ bag[v] >= 1

\* the calls of rebalance in a walk that rotated
RotationSites(visited) ==
    {k \in 1..Len(visited) : rebalanceDone(visited[k].t, visited[k].node) # <<>>}

\* a call of rebalance that only recomputed the height of its node
OnlyHeight(t, node, after) ==
    /\ after.root = t.root
    /\ after.nodes = [t.nodes EXCEPT ![node].height = after.nodes[node].height]

\* the walk of Add result r: rebalance is called on every node above the new
\* node, rotates in at most one of these calls, and in every call after that
\* one only recomputes a height
OneRotationSite(r) ==
    /\ AncestorsOrSelf(r.t.nodes, r.newNode) \ {r.newNode}
           \subseteq {r.visited[k].node : k \in 1..Len(r.visited)}
    /\ Cardinality(RotationSites(r.visited)) <= 1
    /\ \A k, m \in 1..Len(r.visited) :
          (k \in RotationSites(r.visited) /\ m > k) =>
              \E after \in {rebalance(r.visited[m].t, r.visited[m].node)} :
                  OnlyHeight(r.visited[m].t, r.visited[m].node, after)

\* C24: in one Add, rebalance is called at every ancestor of the new node but
\* rotates at no more than one of them (one single or one double rotation in
\* all); at every ancestor visited after that one it only recomputes the height
C24_OneRotationStep ==
    hist'.op = "Add" => \E r \in {Add(tree, hist'.arg)} : OneRotationSite(r)

C24_OneRotation == [][C24_OneRotationStep]_vars

\* an Add has just made a double rotation below the root and then visited
\* two more nodes
C24_Witness ==
    /\ hist.op = "Add"
    /\ \E k \in 1..Len(hist.walk) :
          /\ Len(hist.walk[k].done) = 2 /\ hist.walk[k].root = FALSE
          /\ Len(hist.walk) >= k + 2

\* iterator i has reported its end in its last call of Next
Exhausted(i) ==
    /\ Len(yielded[i]) > 0
    /\ yielded[i][Len(yielded[i])][2] = -1

\* C25: once Next has returned index -1 on an iterator, and the tree is not
\* mutated, every later Next on that iterator returns the zero value and
\* index -1 again and leaves the iterator's stack and index as they are
C25_StickyStep ==
    \A i \in IterIds :
        (Exhausted(i) /\ Len(yielded'[i]) = Len(yielded[i]) + 1) =>
            /\ yielded'[i][Len(yielded'[i])] = <<0, -1>>
            /\ iters'[i] = iters[i]
            /\ IterNext(iters'[i], tree').index = -1

C25_Sticky == [][C25_StickyStep]_vars

\* an iterator on a tree of three or more nodes has reported its end twice
C25_Witness ==
    /\ tree.size >= 3
    /\ Len(yielded["b"]) = tree.size + 2
    /\ yielded["b"][tree.size + 1][2] = -1
    /\ yielded["b"][tree.size + 2][2] = -1

\* the calls that only read the tree; "Iterate" is NewIterator, Next and the
\* client letting go of an iterator
ReadingCalls ==
    {"Contains", "GetMin", "GetMax", "GetSize", "IsEmpty", "InorderTraverse", "Iterate"}

\* C23: Contains, GetMin, GetMax, GetSize, IsEmpty, InorderTraverse,
\* NewIterator and Next leave the tree as it is: the root, the size and every
\* node's value, left, right, parent and height; a Next changes nothing but
\* the stack and index of the iterator it is called on
C23_ReadOnlyStep ==
    hist'.op \in ReadingCalls =>
        /\ tree'.root = tree.root /\ tree'.size = tree.size
        /\ tree'.nodes = tree.nodes
        /\ hist'.op # "Iterate" => iters' = iters
        /\ \A i \in IterIds :
              Len(yielded'[i]) = Len(yielded[i]) + 1 =>
                  \A j \in IterIds \ {i} : iters'[j] = iters[j]

C23_ReadOnly == [][C23_ReadOnlyStep]_vars

\* InorderTraverse has just been called while an iterator was half way
\* through a tree of four or more nodes
C23_Witness ==
    /\ hist.op = "InorderTraverse" /\ tree.size >= 4
    /\ iters["a"] # NoIter
    /\ Len(yielded["a"]) = 2

====
